---------------------------- MODULE Spec2Model ----------------------------
(***************************************************************************)
(* A model of nxo64.py: the layout builder (Range, Segment, Section,       *)
(* SegmentBuilder), the KIP1 "BLZ" decompressor, the container readers'    *)
(* region concatenation, and the NxoFileBase constructor with its          *)
(* plt_lookup cache.                                                       *)
(***************************************************************************)
EXTENDS Integers, Sequences, FiniteSets, TLC

VARIABLES
    segments,   \* SegmentBuilder.segments: sequence of Segment records
    parts,      \* the list returned by the last flatten() call
    last,       \* the last builder call and how it ended
    blz,        \* kip1_blz_decompress: its locals and how it ended
    cat,        \* NsoFile / KipFile __init__: the regions and the buffer "full"
    dyn,        \* NxoFileBase.__init__, "read dynamic": the table being parsed
    load        \* NxoFileBase: the constructor's position and the object's fields

bvars == <<segments, parts, last>>
vars == <<segments, parts, last, blz, cat, dyn, load>>

(* each component before it is used: no builder call made, no decompression *)
NoCall == [op |-> "none", ok |-> TRUE, err |-> "none"]
BlzIdle == [pc |-> "idle"]
CatIdle == [pc |-> "idle"]
DynIdle == [pc |-> "idle"]
LoadIdle == [pc |-> "idle"]

-----------------------------------------------------------------------------
(* Bounds of the layout-builder model *)
MaxAddr == 1
MaxSize == 3
MaxSecSize == 2
MaxSegs == 2
MaxSecs == 2

(* the names the constructor registers, in its order of registration *)
SegNames == << <<".text", "CODE">>, <<".rodata", "CONST">>,
               <<".data", "DATA">>, <<".bss", "BSS">> >>
SecNames == << ".dynamic", ".eh_frame_hdr", ".dynstr", ".dynsym" >>

-----------------------------------------------------------------------------
(* class Range *)
Range(start, size) ==
    [start |-> start, size |-> size, end |-> start + size,
     inclend |-> start + size - 1]

(* mutant: the two ends compared strictly, so a one-address overlap is missed *)
overlaps_strict(self, other) ==
    self.start < other.inclend /\ other.start < self.inclend

overlaps(self, other) ==
    self.start <= other.inclend /\ other.start <= self.inclend

includes(self, other) ==
    other.start >= self.start /\ other.inclend <= self.inclend

(* class Section, class Segment *)
Section(r, name) == [range |-> r, name |-> name]

Segment(r, name, kind) ==
    [range |-> r, name |-> name, kind |-> kind, sections |-> <<>>]

(* mutant: the sibling check compares only against the first section *)
SegmentAddSectionOk_first(seg, s) ==
    seg.sections = <<>> \/ ~overlaps(seg.sections[1].range, s.range)

(* Segment.add_section: the assertion passes iff no sibling overlaps *)
SegmentAddSectionOk(seg, s) ==
    \A i \in 1..Len(seg.sections) : ~overlaps(seg.sections[i].range, s.range)

SegmentAddSection(seg, s) ==
    [seg EXCEPT !.sections = Append(@, s)]

(* suffixed_name without the suffix == 0 case of lines 139-140 *)
suffixed_name_always(name, suffix) == name \o "." \o ToString(suffix)

(* def suffixed_name *)
suffixed_name(name, suffix) ==
    IF suffix = 0 THEN name ELSE name \o "." \o ToString(suffix)

-----------------------------------------------------------------------------
(* SegmentBuilder.add_segment: [ok, segs]; ok = FALSE is the AssertionError *)
AddSegmentOk(segs, r) ==
    \A i \in 1..Len(segs) : ~overlaps(r, segs[i].range)

BuilderAddSegment(segs, start, size, name, kind) ==
    LET r == Range(start, size) IN
    IF AddSegmentOk(segs, r)
    THEN [ok |-> TRUE, err |-> "none",
          segs |-> Append(segs, Segment(r, name, kind))]
    ELSE [ok |-> FALSE, err |-> "assert not r.overlaps", segs |-> segs]

(* first index of a segment that includes r, 0 when there is none *)
FirstIncluding(segs, r) ==
    IF \E i \in 1..Len(segs) : includes(segs[i].range, r)
    THEN CHOOSE i \in 1..Len(segs) :
            /\ includes(segs[i].range, r)
            /\ \A j \in 1..(i-1) : ~includes(segs[j].range, r)
    ELSE 0

(* SegmentBuilder.add_section, called with size (end = None) *)
BuilderAddSection(segs, name, start, size) ==
    LET r == Range(start, size)
        k == FirstIncluding(segs, r)
    IN  IF ~(size > 0)
        THEN [ok |-> FALSE, err |-> "assert size > 0", segs |-> segs]
        ELSE IF k = 0
        THEN [ok |-> FALSE, err |-> "no containing segment", segs |-> segs]
        ELSE IF ~SegmentAddSectionOk(segs[k], Section(r, name))
        THEN [ok |-> FALSE, err |-> "section overlaps", segs |-> segs]
        ELSE [ok |-> TRUE, err |-> "none",
              segs |-> [segs EXCEPT ![k] = SegmentAddSection(@, Section(r, name))]]

(* SegmentBuilder.add_section, called with end (size = None) *)
BuilderAddSectionEnd(segs, name, start, end) ==
    BuilderAddSection(segs, name, start, end - start)

-----------------------------------------------------------------------------
(* list.sort(key=lambda s: s.range.start): a stable sort by range.start *)
RECURSIVE InsertByStart(_, _)
InsertByStart(sorted, x) ==
    IF sorted = <<>> THEN <<x>>
    ELSE IF x.range.start < Head(sorted).range.start
         THEN <<x>> \o sorted
         ELSE <<Head(sorted)>> \o InsertByStart(Tail(sorted), x)

RECURSIVE SortByStart(_)
SortByStart(s) ==
    IF s = <<>> THEN <<>>
    ELSE InsertByStart(SortByStart(SubSeq(s, 1, Len(s) - 1)), s[Len(s)])

Part(start, end, name, kind) ==
    [start |-> start, end |-> end, name |-> name, kind |-> kind]

(* the inner loop of flatten over one segment's sorted sections *)
RECURSIVE FlattenSections(_, _, _, _)
FlattenSections(segment, secs, pos, suffix) ==
    IF secs = <<>>
    THEN IF pos < segment.range.end
         THEN << Part(pos, segment.range.end,
                      suffixed_name(segment.name, suffix), segment.kind) >>
         ELSE <<>>
    ELSE LET section == Head(secs)
             gap == pos < section.range.start
             filler == IF gap
                       THEN << Part(pos, section.range.start,
                                    suffixed_name(segment.name, suffix),
                                    segment.kind) >>
                       ELSE <<>>
         IN  filler
             \o << Part(section.range.start, section.range.end,
                        section.name, segment.kind) >>
             \o FlattenSections(segment, Tail(secs), section.range.end,
                                IF gap THEN suffix + 1 ELSE suffix)

FlattenSegment(segment) ==
    FlattenSections(segment, segment.sections, segment.range.start, 0)

(* mutant: the sections of a segment are left in insertion order *)
SortedSegments_nosecsort(segs) == SortByStart(segs)

(* the segments as flatten leaves them: sorted, each with sorted sections *)
SortedSegments(segs) ==
    LET s == SortByStart(segs) IN
    [i \in 1..Len(s) |-> [s[i] EXCEPT !.sections = SortByStart(@)]]

RECURSIVE ConcatParts(_)
ConcatParts(segs) ==
    IF segs = <<>> THEN <<>>
    ELSE FlattenSegment(Head(segs)) \o ConcatParts(Tail(segs))

(* SegmentBuilder.flatten: the parts it returns *)
Flatten(segs) == ConcatParts(SortedSegments(segs))

-----------------------------------------------------------------------------
(* kip1_blz_decompress *)
MaxBody == 3
MaxAddl == 1
TrailerLen == 12
ByteVals == {0, 16, 240}

(* struct.pack('<I', v) *)
LE32(v) == << v % 256, (v \div 256) % 256, (v \div 65536) % 256,
              (v \div 16777216) % 256 >>

(* struct.unpack('<I', b) *)
UnLE32(b) == b[1] + 256 * b[2] + 65536 * b[3] + 16777216 * b[4]

(* Python's list[i]: 0-based, a negative i counts from the end, anything
   outside [-len, len) raises IndexError *)
PyInRange(seq, i) == -Len(seq) <= i /\ i < Len(seq)
PyPos(seq, i) == IF i < 0 THEN Len(seq) + i + 1 ELSE i + 1
PyGet(seq, i) == seq[PyPos(seq, i)]
PySet(seq, i, v) == [seq EXCEPT ![PyPos(seq, i)] = v]

Repeat(v, n) == [k \in 1..n |-> v]

(* lines 473-481 without the early return of lines 476-477 *)
BlzEnter_noshortcut(compressed) ==
    LET n == Len(compressed)
        compressed_size == UnLE32(SubSeq(compressed, n - 11, n - 8))
        init_index == UnLE32(SubSeq(compressed, n - 7, n - 4))
        uncompressed_addl_size == UnLE32(SubSeq(compressed, n - 3, n))
        decompressed == compressed \o Repeat(0, uncompressed_addl_size)
    IN  [pc |-> IF Len(decompressed) > 0 THEN "while" ELSE "returned",
         exc |-> "none", result |-> decompressed,
         compressed |-> compressed, decompressed |-> decompressed,
         index |-> compressed_size - init_index,
         outindex |-> Len(decompressed), control |-> 0, i |-> 0,
         wrapped |-> FALSE, nread |-> 0]

(* lines 473-481: unpack the trailer, build the output buffer, set the cursors *)
BlzEnter(compressed) ==
    LET n == Len(compressed)
        compressed_size == UnLE32(SubSeq(compressed, n - 11, n - 8))
        init_index == UnLE32(SubSeq(compressed, n - 7, n - 4))
        uncompressed_addl_size == UnLE32(SubSeq(compressed, n - 3, n))
        decompressed == compressed \o Repeat(0, uncompressed_addl_size)
    IN  IF compressed_size + uncompressed_addl_size = 0
        THEN [pc |-> "returned", exc |-> "none", result |-> <<>>,
              compressed |-> compressed, decompressed |-> decompressed,
              index |-> 0, outindex |-> 0, control |-> 0, i |-> 0,
              wrapped |-> FALSE, nread |-> 0]
        ELSE [pc |-> IF Len(decompressed) > 0 THEN "while" ELSE "returned",
              exc |-> "none", result |-> decompressed,
              compressed |-> compressed, decompressed |-> decompressed,
              index |-> compressed_size - init_index,
              outindex |-> Len(decompressed), control |-> 0, i |-> 0,
              wrapped |-> FALSE, nread |-> 0]

Raise(b, exc) == [b EXCEPT !.pc = "raised", !.exc = exc]

(* lines 483-484: index -= 1; control = compressed[index] *)
BlzReadControl(b) ==
    LET index == b.index - 1 IN
    IF ~PyInRange(b.compressed, index)
    THEN Raise([b EXCEPT !.index = index], "IndexError")
    ELSE [b EXCEPT !.index = index,
                   !.control = PyGet(b.compressed, index),
                   !.i = 0,
                   !.pc = "for",
                   !.nread = @ + 1,
                   !.wrapped = @ \/ index < 0]

(* lines 496-501: the copy loop of one back-reference, j = 0..segmentsize-1 *)
RECURSIVE BlzCopy(_, _, _)
BlzCopy(b, segmentoffset, n) ==
    IF n = 0 THEN b
    ELSE IF b.outindex + segmentoffset >= Len(b.decompressed)
    THEN Raise(b, "ValueError")
    ELSE LET data == PyGet(b.decompressed, b.outindex + segmentoffset)
             outindex == b.outindex - 1
         IN  IF ~PyInRange(b.decompressed, outindex)
             THEN Raise([b EXCEPT !.outindex = outindex], "IndexError")
             ELSE BlzCopy([b EXCEPT !.outindex = outindex,
                                    !.decompressed = PySet(@, outindex, data),
                                    !.wrapped = @ \/ outindex < 0
                                                  \/ b.outindex + segmentoffset < 0],
                          segmentoffset, n - 1)

(* lines 487-501: the back-reference branch of one control bit *)
BlzBackrefBody(b) ==
    IF b.index < 2 THEN Raise(b, "ValueError")
    ELSE LET index == b.index - 2 IN
         IF ~PyInRange(b.compressed, index) \/ ~PyInRange(b.compressed, index + 1)
         THEN Raise([b EXCEPT !.index = index], "IndexError")
         ELSE LET word == PyGet(b.compressed, index)
                            + 256 * PyGet(b.compressed, index + 1)
                  segmentsize == ((word \div 4096) % 16) + 3
                  segmentoffset == (word % 4096) + 2
                  b1 == [b EXCEPT !.index = index, !.nread = @ + 2]
              IN  IF b.outindex < segmentsize THEN Raise(b1, "ValueError")
                  ELSE BlzCopy(b1, segmentoffset, segmentsize)

(* lines 503-507: the literal branch of one control bit *)
BlzLiteralBody(b) ==
    IF b.outindex < 1 THEN Raise(b, "ValueError")
    ELSE LET outindex == b.outindex - 1
             index == b.index - 1
         IN  IF ~PyInRange(b.compressed, index)
             THEN Raise([b EXCEPT !.outindex = outindex, !.index = index],
                        "IndexError")
             ELSE [b EXCEPT !.outindex = outindex,
                            !.index = index,
                            !.decompressed =
                                PySet(@, outindex, PyGet(b.compressed, index)),
                            !.nread = @ + 1,
                            !.wrapped = @ \/ index < 0 \/ outindex < 0]

(* lines 508-509 and the loop heads without the break of lines 510-511 *)
BlzAdvance_nobreak(b) ==
    IF b.pc = "raised" THEN b
    ELSE LET i == b.i + 1
             c == [b EXCEPT !.control = (b.control * 2) % 256, !.i = i]
         IN  IF i = 8
             THEN IF c.outindex > 0
                  THEN [c EXCEPT !.pc = "while"]
                  ELSE [c EXCEPT !.pc = "returned", !.result = c.decompressed]
             ELSE c

(* lines 508-511 and the loop heads 482, 485: shift the control byte, leave
   the for loop when outindex is 0 or after 8 bits, leave the while loop when
   outindex is 0 *)
BlzAdvance(b) ==
    IF b.pc = "raised" THEN b
    ELSE LET i == b.i + 1
             c == [b EXCEPT !.control = (b.control * 2) % 256, !.i = i]
         IN  IF c.outindex = 0 \/ i = 8
             THEN IF c.outindex > 0
                  THEN [c EXCEPT !.pc = "while"]
                  ELSE [c EXCEPT !.pc = "returned", !.result = c.decompressed]
             ELSE c

BlzInputs ==
    { body \o LE32(cs) \o LE32(ii) \o LE32(addl) :
        body \in UNION { [1..n -> ByteVals] : n \in 0..MaxBody },
        cs \in 0..(MaxBody + TrailerLen + 1),
        ii \in {0, TrailerLen},
        addl \in 0..MaxAddl }

BlzInit ==
    /\ blz \in { [pc |-> "call", compressed |-> c] : c \in BlzInputs }
    /\ segments = <<>>
    /\ parts = <<>>
    /\ last = NoCall
    /\ cat = CatIdle
    /\ dyn = DynIdle
    /\ load = LoadIdle

BlzStart ==
    /\ blz.pc = "call"
    /\ blz' = BlzEnter(blz.compressed)
    /\ UNCHANGED <<bvars, cat, dyn, load>>

BlzControl ==
    /\ blz.pc = "while"
    /\ blz' = BlzReadControl(blz)
    /\ UNCHANGED <<bvars, cat, dyn, load>>

BlzBackref ==
    /\ blz.pc = "for"
    /\ blz.control >= 128
    /\ blz' = BlzAdvance(BlzBackrefBody(blz))
    /\ UNCHANGED <<bvars, cat, dyn, load>>

BlzLiteral ==
    /\ blz.pc = "for"
    /\ blz.control < 128
    /\ blz' = BlzAdvance(BlzLiteralBody(blz))
    /\ UNCHANGED <<bvars, cat, dyn, load>>

BlzNext == BlzStart \/ BlzControl \/ BlzBackref \/ BlzLiteral

SpecBlz == BlzInit /\ [][BlzNext]_vars

(* the interpreter runs the call to its return or its exception *)
SpecBlzFair == BlzInit /\ [][BlzNext]_vars /\ WF_vars(BlzNext)

-----------------------------------------------------------------------------
(* NsoFile.__init__ / KipFile.__init__: the three decompressed regions are
   joined into one buffer.  A region's bytes are kept apart from the padding
   (NulByte) by naming each byte after its region and position. *)
MaxRegion == 2
MaxLoc == 3

RegionBytes(tag, n) == [k \in 1..n |-> <<tag, k - 1>>]
NulByte == <<"nul", 0>>

(* mutant: the buffer is only padded, never cut back to the load offset *)
PadOrTruncate_padonly(full, loc) ==
    IF loc >= Len(full) THEN full \o Repeat(NulByte, loc - Len(full)) ELSE full

(* if loc >= len(full): full += '\0' * (loc - len(full))  else: full = full[:loc] *)
PadOrTruncate(full, loc) ==
    IF loc >= Len(full)
    THEN full \o Repeat(NulByte, loc - Len(full))
    ELSE SubSeq(full, 1, loc)

CatInit ==
    /\ cat \in { [pc |-> "text", reader |-> rd,
                  text |-> RegionBytes("t", tl), ro |-> RegionBytes("r", rl),
                  data |-> RegionBytes("d", dl),
                  rloc |-> rloc, dloc |-> dloc, full |-> <<>>] :
                 rd \in {"NsoFile", "KipFile"},
                 tl \in 0..MaxRegion, rl \in 0..MaxRegion, dl \in 0..MaxRegion,
                 rloc \in 0..MaxLoc, dloc \in 0..MaxLoc }
    /\ segments = <<>>
    /\ parts = <<>>
    /\ last = NoCall
    /\ blz = BlzIdle
    /\ dyn = DynIdle
    /\ load = LoadIdle

(* full = text *)
CatText ==
    /\ cat.pc = "text"
    /\ cat' = [cat EXCEPT !.full = cat.text, !.pc = "ro"]
    /\ UNCHANGED <<bvars, blz, dyn, load>>

(* pad or truncate to rloc; full += ro *)
CatRodata ==
    /\ cat.pc = "ro"
    /\ cat' = [cat EXCEPT !.full = PadOrTruncate(cat.full, cat.rloc) \o cat.ro,
                          !.pc = "data"]
    /\ UNCHANGED <<bvars, blz, dyn, load>>

(* pad or truncate to dloc; full += data; the buffer goes to NxoFileBase *)
CatData ==
    /\ cat.pc = "data"
    /\ cat' = [cat EXCEPT !.full = PadOrTruncate(cat.full, cat.dloc) \o cat.data,
                          !.pc = "super"]
    /\ UNCHANGED <<bvars, blz, dyn, load>>

CatNext == CatText \/ CatRodata \/ CatData

SpecCat == CatInit /\ [][CatNext]_vars

-----------------------------------------------------------------------------
(* The dynamic table: NxoFileBase.__init__ lines 243-259.  The buffer from
   dynamicoff to its end is a sequence of 32-bit little-endian words. *)
DT_NULL == 0
DT_NEEDED == 1
DT_PLTRELSZ == 2
DT_PLTGOT == 3
DT_STRTAB == 5
DT_SYMTAB == 6
DT_RELA == 7
DT_RELASZ == 8
DT_STRSZ == 10
DT_REL == 17
DT_RELSZ == 18
DT_JMPREL == 23
DT_INIT_ARRAY == 25
DT_INIT_ARRAYSZ == 27
MULTIPLE_DTS == {DT_NEEDED}

(* An unsigned 64-bit value is kept as its two 32-bit halves *)
U64(lo, hi) == [lo |-> lo, hi |-> hi]
Small(v) == U64(v, 0)

(* f.read('Q') at byte offset off from dynamicoff; struct.error when the
   buffer ends before the 8 bytes *)
CanReadQ(words, off) == (off \div 4) + 2 <= Len(words)
ReadQ(words, off) == U64(words[(off \div 4) + 1], words[(off \div 4) + 2])
CanReadII(words, off) == (off \div 4) + 2 <= Len(words)

(* q > 0xFFFFFFFF *)
Above32(q) == q.hi # 0

(* mutant: the second probe reads the word right after the first *)
Armv7Of_adjacent(words) ==
    Above32(ReadQ(words, 0)) \/ Above32(ReadQ(words, 8))

(* line 244: read_from('Q', dynamicoff) > 0xFFFFFFFF or
             read_from('Q', dynamicoff+0x10) > 0xFFFFFFFF *)
Armv7Of(words) ==
    Above32(ReadQ(words, 0)) \/ Above32(ReadQ(words, 16))

(* whether line 244 can be evaluated: "or" reads the second word only when
   the first comparison is false *)
CanDetect(words) ==
    /\ CanReadQ(words, 0)
    /\ (Above32(ReadQ(words, 0)) \/ CanReadQ(words, 16))

(* size in bytes of one entry as line 252 reads it *)
DynEntSize(armv7) == IF armv7 THEN 8 ELSE 16

CanReadEntry(words, armv7, i) ==
    IF armv7 THEN CanReadII(words, 8 * i)
    ELSE (16 * i) \div 4 + 4 <= Len(words)

(* line 252: tag, val = f.read('II' if self.armv7 else 'QQ'), entry i (0-based) *)
ReadEntry(words, armv7, i) ==
    IF armv7
    THEN [tag |-> Small(words[2 * i + 1]), val |-> Small(words[2 * i + 2])]
    ELSE [tag |-> ReadQ(words, 16 * i), val |-> ReadQ(words, 16 * i + 8)]

(* floor division as Python 2 does it on ints *)
PyDiv(a, b) == a \div b

(* line 251: xrange((flatsize - dynamicoff) / 0x10) *)
DynIterations(flatsize, dynamicoff) ==
    LET n == PyDiv(flatsize - dynamicoff, 16) IN IF n < 0 THEN 0 ELSE n

(* mutant: a repeated single-slot tag keeps its first value *)
DynStore_first(d, tag, val) ==
    IF tag \in { Small(t) : t \in MULTIPLE_DTS }
    THEN [d EXCEPT !.needed = Append(@, val)]
    ELSE IF tag \in DOMAIN d.slots THEN d
    ELSE [d EXCEPT !.slots = [t \in DOMAIN d.slots \cup {tag} |->
                                IF t = tag THEN val ELSE d.slots[t]]]

(* lines 255-258: dynamic[tag].append(val) or dynamic[tag] = val *)
DynStore(d, tag, val) ==
    IF tag \in { Small(t) : t \in MULTIPLE_DTS }
    THEN [d EXCEPT !.needed = Append(@, val)]
    ELSE [d EXCEPT !.slots = [t \in DOMAIN d.slots \cup {tag} |->
                                IF t = tag THEN val ELSE d.slots[t]]]

EmptyDynamic == [needed |-> <<>>, slots |-> [t \in {} |-> Small(0)]]

(* one pass of the for loop of lines 251-258 over the state
   [pc, words, avail, niter, armv7, nread, table, exc] *)
DynLoopStep(d) ==
    IF d.nread >= d.niter THEN [d EXCEPT !.pc = "parsed"]
    ELSE IF ~CanReadEntry(d.words, d.armv7, d.nread)
    THEN [d EXCEPT !.pc = "raised", !.exc = "struct.error"]
    ELSE LET e == ReadEntry(d.words, d.armv7, d.nread) IN
         IF e.tag = Small(DT_NULL)
         THEN [d EXCEPT !.nread = @ + 1, !.pc = "parsed"]
         ELSE [d EXCEPT !.nread = @ + 1,
                        !.table = DynStore(@, e.tag, e.val)]

(* lines 244-250: detect the width, seek, create the table *)
DynEnter(words, avail) ==
    IF ~CanDetect(words)
    THEN [pc |-> "raised", exc |-> "struct.error", words |-> words,
          avail |-> avail, niter |-> DynIterations(avail, 0),
          armv7 |-> FALSE, nread |-> 0, table |-> EmptyDynamic]
    ELSE [pc |-> "loop", exc |-> "none", words |-> words,
          avail |-> avail, niter |-> DynIterations(avail, 0),
          armv7 |-> Armv7Of(words), nread |-> 0, table |-> EmptyDynamic]

(* the whole of lines 244-258 *)
RECURSIVE DynRun(_)
DynRun(d) == IF d.pc = "loop" THEN DynRun(DynLoopStep(d)) ELSE d
ParseDynamic(words, avail) == DynRun(DynEnter(words, avail))

(* the words of a table of (tag, val) pairs in either layout *)
RECURSIVE EncodeNarrow(_)
EncodeNarrow(es) ==
    IF es = <<>> THEN <<>>
    ELSE << Head(es)[1], Head(es)[2] >> \o EncodeNarrow(Tail(es))

RECURSIVE EncodeWide(_)
EncodeWide(es) ==
    IF es = <<>> THEN <<>>
    ELSE << Head(es)[1], 0, Head(es)[2], 0 >> \o EncodeWide(Tail(es))

MaxDyn == 3
MaxTail == 4
DynTags == {DT_NULL, DT_NEEDED, DT_STRTAB}
DynVals == {0, 5, 9}
DynEntries ==
    ({DT_NULL} \X {0}) \cup ({DT_NEEDED} \X {5, 9}) \cup ({DT_STRTAB} \X DynVals)

SeqsUpTo(S, n) == UNION { [1..k -> S] : k \in 0..n }

(* flatsize - dynamicoff, a multiple of 8 that may be negative *)
DynAvail == { 8 * k : k \in (-1)..(2 * MaxDyn + 1) }

DynInit ==
    /\ dyn \in { [pc |-> "detect",
                  words |-> (IF narrow THEN EncodeNarrow(es) ELSE EncodeWide(es))
                            \o Repeat(0, tail),
                  avail |-> avail,
                  niter |-> DynIterations(avail, 0)] :
                 es \in SeqsUpTo(DynEntries, MaxDyn),
                 narrow \in BOOLEAN,
                 tail \in {0, MaxTail},
                 avail \in DynAvail }
    /\ segments = <<>>
    /\ parts = <<>>
    /\ last = NoCall
    /\ blz = BlzIdle
    /\ cat = CatIdle
    /\ load = LoadIdle

DynDetect ==
    /\ dyn.pc = "detect"
    /\ dyn' = DynEnter(dyn.words, dyn.avail)
    /\ UNCHANGED <<bvars, blz, cat, load>>

DynLoop ==
    /\ dyn.pc = "loop"
    /\ dyn' = DynLoopStep(dyn)
    /\ UNCHANGED <<bvars, blz, cat, load>>

DynNext == DynDetect \/ DynLoop

SpecDyn == DynInit /\ [][DynNext]_vars

-----------------------------------------------------------------------------
(* NxoFileBase.__init__ and NxoFileBase.plt_lookup *)
DT_FINI_ARRAY == 26
DT_FINI_ARRAYSZ == 28
R_ARM_TLS_DESC == 13
R_ARM_JUMP_SLOT == 22
R_AARCH64_ABS64 == 257
R_AARCH64_GLOB_DAT == 1025
R_AARCH64_JUMP_SLOT == 1026
R_AARCH64_TLSDESC == 1031

MaxRelocs == 1
MaxStubs == 1

(* byte offsets at which the images under load keep their tables:
   .dynsym and .dynstr, .rela.plt and .rela.dyn in the read-only region,
   the GOT slots in the data region, .eh_frame after the unwind header *)
Image ==
    [strtab |-> 512, strsz |-> 4, symtab |-> 464, nsyms |-> 2,
     jmprel |-> 576, rela |-> 672, pltgot |-> 944, got |-> 960,
     eh_frame |-> 320, stub |-> 16]

(* the constructor's arguments and the fields of the MOD0 header *)
BaseHeader ==
    [magic |-> TRUE, tloc |-> 0, tsize |-> 256, rloc |-> 256, rsize |-> 512,
     dloc |-> 768, dsize |-> 256, dynamicoff |-> 768, bssoff |-> 1024,
     bssend |-> 1280, unwindoff |-> 256, unwindend |-> 284]

Headers ==
    { BaseHeader,
      [BaseHeader EXCEPT !.magic = FALSE],
      [BaseHeader EXCEPT !.tsize = 0],
      [BaseHeader EXCEPT !.rsize = 0],
      [BaseHeader EXCEPT !.bssoff = 768],
      [BaseHeader EXCEPT !.bssend = 1024],
      [BaseHeader EXCEPT !.rloc = 128] }

None == [none |-> TRUE]

(* the object as __init__ finds it: no field set yet *)
LoadStart(h) ==
    [pc |-> "mod0", exc |-> "none", line |-> 0, hdr |-> h,
     datasize |-> 0, bsssize |-> 0,
     armv7 |-> FALSE, dynamic |-> EmptyDynamic, dynstr |-> <<>>,
     warned |-> FALSE, needed |-> <<>>, symbols |-> <<>>,
     relocations |-> <<>>, locations |-> {}, plt_entries |-> <<>>,
     eh_table |-> <<>>, plt_lookup |-> None, requests |-> 0,
     returned |-> None]

(* an exception leaves __init__ at the given source line *)
Fail(l, exc, line) == [l EXCEPT !.pc = "failed", !.exc = exc, !.line = line]

Started(segs) == [ok |-> TRUE, err |-> "none", segs |-> segs]

ThenAddSectionEnd(b, name, start, end) ==
    IF b.ok THEN BuilderAddSectionEnd(b.segs, name, start, end) ELSE b

(* lines 235-241: the four add_segment calls, stopped by the first assert *)
RECURSIVE AddSegments(_, _, _)
AddSegments(b, list, i) ==
    IF i > Len(list) \/ ~b.ok THEN b
    ELSE AddSegments(BuilderAddSegment(b.segs, list[i][1], list[i][2],
                                       SegNames[i][1], SegNames[i][2]),
                     list, i + 1)

RegisterSegments(h) ==
    AddSegments(Started(<<>>),
                << <<h.tloc, h.tsize>>,
                   <<h.rloc, h.rsize>>,
                   <<h.dloc, h.bssoff - h.dloc>>,
                   <<h.bssoff, h.bssend - h.bssoff>> >>, 1)

(* lines 216-241 *)
LoadMod0 ==
    /\ load.pc = "mod0"
    /\ LET h == load.hdr
           b == RegisterSegments(h)
           l == [load EXCEPT !.datasize = h.bssoff - h.dloc,
                             !.bsssize = h.bssend - h.bssoff]
       IN  IF ~h.magic
           THEN load' = Fail(load, "NxoException", 220) /\ segments' = segments
           ELSE IF ~b.ok
           THEN load' = Fail(l, "AssertionError", 151) /\ segments' = b.segs
           ELSE load' = [l EXCEPT !.pc = "dynamic"] /\ segments' = b.segs
    /\ UNCHANGED <<parts, last, blz, cat, dyn>>

(* tag in dynamic, dynamic[tag] *)
DynHas(d, t) == Small(t) \in DOMAIN d.slots
DynGet(d, t) == d.slots[Small(t)].lo

RelocSize(armv7) == IF armv7 THEN 8 ELSE 24
OffSize(armv7) == IF armv7 THEN 4 ELSE 8

Pair(c, t, v) == IF c THEN << <<t, v>> >> ELSE <<>>

(* the (tag, val) pairs of an image's dynamic table *)
DynamicEntries(narrow, needed, strtab, strsz, nplt, nrela) ==
    [i \in 1..Len(needed) |-> <<DT_NEEDED, needed[i]>>]
    \o Pair(strtab, DT_STRTAB, Image.strtab)
    \o Pair(strsz, DT_STRSZ, Image.strsz)
    \o Pair(TRUE, DT_SYMTAB, Image.symtab)
    \o Pair(nplt >= 0, DT_JMPREL, Image.jmprel)
    \o Pair(nplt >= 0, DT_PLTRELSZ, nplt * RelocSize(narrow))
    \o Pair(nplt >= 0, DT_PLTGOT, Image.pltgot)
    \o Pair(nrela >= 0, IF narrow THEN DT_REL ELSE DT_RELA, Image.rela)
    \o Pair(nrela >= 0, IF narrow THEN DT_RELSZ ELSE DT_RELASZ,
            nrela * RelocSize(narrow))
    \o << <<DT_NULL, 0>> >>

(* the 32-bit words from dynamicoff on: the table, then zero bytes *)
DynamicWords(narrow, es) ==
    (IF narrow THEN EncodeNarrow(es) ELSE EncodeWide(es)) \o Repeat(0, 4)

(* lines 244-260 *)
LoadDynamic ==
    /\ load.pc = "dynamic"
    /\ \E narrow \in BOOLEAN, needed \in {<<>>, <<1>>}, strtab \in BOOLEAN,
          strsz \in BOOLEAN, nplt \in (-1)..MaxRelocs, nrela \in {-1, 1} :
         LET h == load.hdr
             words == DynamicWords(narrow,
                         DynamicEntries(narrow, needed, strtab, strsz, nplt, nrela))
             d == ParseDynamic(words, h.dloc + h.dsize - h.dynamicoff)
             tell == h.dynamicoff + d.nread * DynEntSize(d.armv7)
             b1 == ThenAddSectionEnd(Started(segments), ".dynamic",
                                     h.dynamicoff, tell)
             b2 == ThenAddSectionEnd(b1, ".eh_frame_hdr", h.unwindoff, h.unwindend)
             l == [load EXCEPT !.armv7 = d.armv7, !.dynamic = d.table]
         IN  IF d.pc = "raised"
             THEN load' = Fail(load, d.exc, 252) /\ segments' = segments
             ELSE IF ~b2.ok
             THEN /\ load' = Fail(l, "AssertionError", IF b1.ok THEN 260 ELSE 259)
                  /\ segments' = b2.segs
             ELSE load' = [l EXCEPT !.pc = "dynstr"] /\ segments' = b2.segs
    /\ UNCHANGED <<parts, last, blz, cat, dyn>>

(* the bytes f.read(dynamic[DT_STRSZ]) can return at dynamic[DT_STRTAB] *)
DynstrChoices == { <<"nul", "a", "nul", "nul">>, <<"nul", "a", "a", "a">> }

(* get_dynstr: dynstr[o : dynstr.index('\0', o)], ValueError without a nul *)
GetDynstr(dynstr, o) ==
    LET idx == { k \in o..(Len(dynstr) - 1) : dynstr[k + 1] = "nul" } IN
    IF idx = {} THEN [ok |-> FALSE, name |-> <<>>]
    ELSE LET e == CHOOSE k \in idx : \A j \in idx : k <= j IN
         [ok |-> TRUE, name |-> SubSeq(dynstr, o + 1, e)]

(* lines 270-277: the (start tag, size tag, name) triples *)
SectionKeys(armv7) ==
    << <<DT_STRTAB, DT_STRSZ, ".dynstr">>,
       <<DT_INIT_ARRAY, DT_INIT_ARRAYSZ, ".init_array">>,
       <<DT_FINI_ARRAY, DT_FINI_ARRAYSZ, ".fini_array">>,
       <<DT_RELA, DT_RELASZ, ".rela.dyn">>,
       <<DT_REL, DT_RELSZ, ".rel.dyn">>,
       <<DT_JMPREL, DT_PLTRELSZ, IF armv7 THEN ".rel.plt" ELSE ".rela.plt">> >>

(* lines 278-279 for the triples from i on *)
RECURSIVE AddTableSections(_, _, _, _)
AddTableSections(b, d, keys, i) ==
    IF i > Len(keys) \/ ~b.ok THEN b
    ELSE AddTableSections(
            IF DynHas(d, keys[i][1]) /\ DynHas(d, keys[i][2])
            THEN BuilderAddSection(b.segs, keys[i][3],
                                   DynGet(d, keys[i][1]), DynGet(d, keys[i][2]))
            ELSE b,
            d, keys, i + 1)

(* line 281: [self.get_dynstr(i) for i in self.dynamic[DT_NEEDED]] *)
NeededNames(dynstr, needed) ==
    [ok |-> \A i \in 1..Len(needed) : GetDynstr(dynstr, needed[i].lo).ok,
     names |-> [i \in 1..Len(needed) |-> GetDynstr(dynstr, needed[i].lo).name]]

(* lines 262-281 *)
LoadDynstr ==
    /\ load.pc = "dynstr"
    /\ \E s \in DynstrChoices :
         LET d == load.dynamic
             both == DynHas(d, DT_STRTAB) /\ DynHas(d, DT_STRSZ)
             dynstr == IF both THEN s ELSE <<"nul">>
             b == AddTableSections(Started(segments), d, SectionKeys(load.armv7), 1)
             n == NeededNames(dynstr, d.needed)
             l == [load EXCEPT !.dynstr = dynstr, !.warned = ~both]
         IN  IF ~b.ok
             THEN load' = Fail(l, "AssertionError", 279) /\ segments' = b.segs
             ELSE IF ~n.ok
             THEN load' = Fail(l, "ValueError", 419) /\ segments' = b.segs
             ELSE /\ load' = [l EXCEPT !.pc = "dynsym", !.needed = n.names]
                  /\ segments' = b.segs
    /\ UNCHANGED <<parts, last, blz, cat, dyn>>

(* class ElfSym *)
ElfSym(name, info, other, shndx, value, size) ==
    [name |-> name, shndx |-> shndx, value |-> value, size |-> size,
     vis |-> other % 4, type |-> info % 16, bind |-> info \div 16]

(* the symbol records an image can hold: the null symbol, a defined
   function named "a", a record whose name offset is the length of the
   string table read from the file (Image.strsz), and a record whose name
   offset lies past any dynstr *)
SymKinds ==
    { [st_name |-> 0, st_info |-> 0, st_other |-> 0, st_shndx |-> 0,
       st_value |-> 0, st_size |-> 0],
      [st_name |-> 1, st_info |-> 18, st_other |-> 0, st_shndx |-> 1,
       st_value |-> 64, st_size |-> 8],
      [st_name |-> Image.strsz, st_info |-> 0, st_other |-> 0, st_shndx |-> 0,
       st_value |-> 0, st_size |-> 0],
      [st_name |-> 9, st_info |-> 0, st_other |-> 0, st_shndx |-> 0,
       st_value |-> 0, st_size |-> 0] }

(* struct.calcsize of 'IIIBBH' and of 'IBBHQQ' *)
SymSize(armv7) == IF armv7 THEN 16 ELSE 24

(* how many records lie between the symbol table and the string table *)
SymCount(symtab, strtab, armv7) ==
    IF symtab < strtab
    THEN (strtab - symtab + SymSize(armv7) - 1) \div SymSize(armv7)
    ELSE Image.nsyms

(* lines 286-295, from record i on; recs are the records the file holds at
   dynamic[DT_SYMTAB], after which the file ends *)
RECURSIVE SymLoop(_, _, _, _, _, _, _)
SymLoop(symtab, strtab, armv7, dynstr, recs, i, symbols) ==
    LET tell == symtab + i * SymSize(armv7) IN
    IF symtab < strtab /\ tell >= strtab
    THEN [exc |-> "none", symbols |-> symbols, tell |-> tell]
    ELSE IF i >= Len(recs)
    THEN [exc |-> "struct.error", symbols |-> symbols, tell |-> tell]
    ELSE LET r == recs[i + 1] IN
         IF r.st_name > Len(dynstr)
         THEN [exc |-> "none", symbols |-> symbols,
               tell |-> tell + SymSize(armv7)]
         ELSE IF ~GetDynstr(dynstr, r.st_name).ok
         THEN [exc |-> "ValueError", symbols |-> symbols,
               tell |-> tell + SymSize(armv7)]
         ELSE SymLoop(symtab, strtab, armv7, dynstr, recs, i + 1,
                      Append(symbols,
                             ElfSym(GetDynstr(dynstr, r.st_name).name, r.st_info,
                                    r.st_other, r.st_shndx, r.st_value,
                                    r.st_size)))

(* lines 284-296 *)
LoadDynsym ==
    /\ load.pc = "dynsym"
    /\ LET d == load.dynamic IN
       IF ~DynHas(d, DT_SYMTAB)
       THEN load' = Fail(load, "KeyError", 285) /\ segments' = segments
       ELSE IF ~DynHas(d, DT_STRTAB)
       THEN load' = Fail(load, "KeyError", 287) /\ segments' = segments
       ELSE LET symtab == DynGet(d, DT_SYMTAB)
                strtab == DynGet(d, DT_STRTAB)
            IN  \E recs \in [1..SymCount(symtab, strtab, load.armv7) -> SymKinds] :
                  LET r == SymLoop(symtab, strtab, load.armv7, load.dynstr,
                                   recs, 0, <<>>)
                      b == BuilderAddSectionEnd(segments, ".dynsym", symtab, r.tell)
                      l == [load EXCEPT !.symbols = r.symbols]
                  IN  IF r.exc = "ValueError"
                      THEN load' = Fail(l, "ValueError", 419) /\ segments' = segments
                      ELSE IF r.exc # "none"
                      THEN load' = Fail(l, r.exc, 292) /\ segments' = segments
                      ELSE IF ~b.ok
                      THEN load' = Fail(l, "AssertionError", 296) /\ segments' = b.segs
                      ELSE load' = [l EXCEPT !.pc = "relocs"] /\ segments' = b.segs
    /\ UNCHANGED <<parts, last, blz, cat, dyn>>

Some(v) == [none |-> FALSE, v |-> v]

(* one relocation record as the file holds it: 'II' (offset, info) or
   'QQq' (offset, info, addend), info packing the type and the symbol index *)
RawReloc(armv7, offset, type, symidx, addend) ==
    IF armv7
    THEN [offset |-> offset, info |-> Small(symidx * 256 + type), addend |-> None]
    ELSE [offset |-> offset, info |-> U64(type, symidx), addend |-> Some(addend)]

(* lines 401-409 *)
RelocType(armv7, raw) == IF armv7 THEN raw.info.lo % 256 ELSE raw.info.lo
RelocSym(armv7, raw) == IF armv7 THEN raw.info.lo \div 256 ELSE raw.info.hi

(* process_relocations over the records raws from record i on *)
RECURSIVE ProcessLoop(_, _, _, _, _)
ProcessLoop(armv7, symbols, raws, i, acc) ==
    IF i > Len(raws) THEN acc
    ELSE LET raw == raws[i]
             r_type == RelocType(armv7, raw)
             r_sym == RelocSym(armv7, raw)
         IN  IF r_sym # 0 /\ r_sym >= Len(symbols)
             THEN [acc EXCEPT !.exc = "IndexError"]
             ELSE ProcessLoop(armv7, symbols, raws, i + 1,
                    [exc |-> "none",
                     locations |->
                        IF r_type # R_AARCH64_TLSDESC /\ r_type # R_ARM_TLS_DESC
                        THEN acc.locations \cup {raw.offset}
                        ELSE acc.locations,
                     relocations |->
                        Append(acc.relocations,
                               [offset |-> raw.offset, r_type |-> r_type,
                                sym |-> IF r_sym # 0 THEN symbols[r_sym + 1]
                                        ELSE None,
                                addend |-> raw.addend])])

process_relocations(armv7, symbols, raws, relocations) ==
    ProcessLoop(armv7, symbols, raws, 1,
                [exc |-> "none", locations |-> {}, relocations |-> relocations])

(* xrange(size / relocsize) *)
RelocCount(size, armv7) == size \div RelocSize(armv7)

(* the (type, symbol index, addend) triples of the records a generic and a
   PLT relocation table can hold *)
DynRelKinds(armv7) ==
    IF armv7 THEN { <<R_ARM_JUMP_SLOT, 1, 0>>, <<R_ARM_TLS_DESC, 0, 0>> }
    ELSE { <<R_AARCH64_GLOB_DAT, 1, 0>>, <<R_AARCH64_ABS64, 1, 8>> }

PltRelKinds(armv7) ==
    IF armv7
    THEN { <<R_ARM_JUMP_SLOT, 1, 0>>, <<R_ARM_JUMP_SLOT, 0, 0>>,
           <<R_ARM_TLS_DESC, 0, 0>> }
    ELSE { <<R_AARCH64_JUMP_SLOT, 1, 0>>, <<R_AARCH64_JUMP_SLOT, 0, 0>>,
           <<R_AARCH64_TLSDESC, 0, 0>> }

(* the records of a table of the given kinds patching consecutive
   pointer-size slots from the slot numbered first on *)
RawTable(armv7, kinds, first) ==
    [i \in 1..Len(kinds) |->
        RawReloc(armv7, Image.got + OffSize(armv7) * (first + i - 1),
                 kinds[i][1], kinds[i][2], kinds[i][3])]

(* number of slots the PLT relocation table patches *)
PltSlots(d, armv7) ==
    IF DynHas(d, DT_JMPREL) /\ DynHas(d, DT_PLTRELSZ)
    THEN RelocCount(DynGet(d, DT_PLTRELSZ), armv7) ELSE 0

(* lines 298-305; tag is DT_REL or DT_RELA, sz its size tag *)
LoadTable(l, tag, sz, line) ==
    IF l.pc = "failed" \/ ~DynHas(l.dynamic, tag) THEN {l}
    ELSE IF ~DynHas(l.dynamic, sz) THEN {Fail(l, "KeyError", line)}
    ELSE { LET r == process_relocations(l.armv7, l.symbols,
                       RawTable(l.armv7, kinds, PltSlots(l.dynamic, l.armv7) + 1),
                       l.relocations)
               l2 == [l EXCEPT !.relocations = r.relocations,
                               !.locations = @ \cup r.locations]
           IN  IF r.exc # "none" THEN Fail(l2, r.exc, 411) ELSE l2 :
           kinds \in [1..RelocCount(DynGet(l.dynamic, sz), l.armv7) ->
                        DynRelKinds(l.armv7)] }

LoadRelocs ==
    /\ load.pc = "relocs"
    /\ \E l1 \in LoadTable(load, DT_REL, DT_RELSZ, 302) :
       \E l2 \in LoadTable(l1, DT_RELA, DT_RELASZ, 305) :
          load' = IF l2.pc = "failed" THEN l2 ELSE [l2 EXCEPT !.pc = "pltgot"]
    /\ UNCHANGED <<bvars, blz, cat, dyn>>

(* a 32-bit instruction word as its two 16-bit halves *)
W(hi, lo) == [hi |-> hi, lo |-> lo]

(* x & y on naturals *)
RECURSIVE BitAnd(_, _)
BitAnd(x, y) ==
    IF x = 0 \/ y = 0 THEN 0
    ELSE (x % 2) * (y % 2) + 2 * BitAnd(x \div 2, y \div 2)

(* d == 0xD61F0220 *)
IsBr(d) == d.hi = 54815 /\ d.lo = 544
(* (a & 0x9f00001f) == 0x90000010 *)
IsAdrp(a) == BitAnd(a.hi, 40704) = 36864 /\ BitAnd(a.lo, 31) = 16
(* (b & 0xffe003ff) == 0xf9400211 *)
IsLdr(b) == BitAnd(b.hi, 65504) = 63808 /\ BitAnd(b.lo, 1023) = 529

(* lines 328-333: the slot address a stub at byte offset off loads from *)
StubTarget(off, a, b) ==
    LET base == off - (off % 4096)
        immhi == (a.hi * 2048 + a.lo \div 32) % 524288
        immlo == (a.hi \div 8192) % 4
        paddr == base + (immlo * 4096 + immhi * 16384)
        poff == ((b.hi * 64 + b.lo \div 1024) % 4096) * 8
    IN  paddr + poff

(* lines 320-335 over the words of text from (1-based) word i on; a match of
   the branch word at an unaligned byte position is skipped by line 324 *)
RECURSIVE ScanStubs(_, _, _, _)
ScanStubs(text, i, plt_got_start, plt_got_end) ==
    IF i > Len(text) THEN <<>>
    ELSE LET off == 4 * (i - 4)
             target == StubTarget(off, text[i - 3], text[i - 2])
             hit == /\ IsBr(text[i])
                    /\ IsAdrp(text[i - 3])
                    /\ IsLdr(text[i - 2])
                    /\ plt_got_start <= target
                    /\ target < plt_got_end
         IN  (IF hit THEN << <<off, target>> >> ELSE <<>>)
             \o ScanStubs(text, i + 1, plt_got_start, plt_got_end)

(* the four words of a PLT stub loading from slot, and of a look-alike whose
   first word names another register *)
StubWords(slot) ==
    << W(36864, 16),
       W(63808 + (slot \div 8) \div 64, 529 + ((slot \div 8) % 64) * 1024),
       W(37120, 528),
       W(54815, 544) >>
DecoyWords == << W(36864, 17), W(63808, 529), W(37120, 528), W(54815, 544) >>

StubKinds == { StubWords(Image.got), StubWords(Image.got + 8), DecoyWords }

RECURSIVE Concat(_)
Concat(ss) == IF ss = <<>> THEN <<>> ELSE Head(ss) \o Concat(Tail(ss))

(* text = f.read(self.textsize) at offset 0: a first line of four words
   (offset 4 holds the MOD0 pointer), then the stubs, cut at textsize; the
   rest of the region holds no branch word *)
TextWords(stubs, textsize) ==
    LET all == << W(0, 0), W(0, 128), W(0, 0), W(0, 0) >> \o Concat(stubs)
        n == IF textsize \div 4 < Len(all) THEN textsize \div 4 ELSE Len(all)
    IN  SubSeq(all, 1, n)

MinOf(S) == CHOOSE x \in S : \A y \in S : x <= y
MaxOf(S) == CHOOSE x \in S : \A y \in S : x >= y

(* lines 339-343: where the probing for .got stops *)
RECURSIVE GotProbe(_, _, _, _)
GotProbe(got_end, locations, d, offsize) ==
    IF /\ got_end \in locations
       /\ (~DynHas(d, DT_INIT_ARRAY) \/ got_end < DynGet(d, DT_INIT_ARRAY))
    THEN GotProbe(got_end + offsize, locations, d, offsize)
    ELSE got_end

(* lines 311-346, once the PLT relocations are processed *)
PltGot(l, segs, pltlocations, text) ==
    IF pltlocations = {}
    THEN [load |-> Fail(l, "ValueError", 311), segs |-> segs]
    ELSE
    LET d == l.dynamic
        offsize == OffSize(l.armv7)
        plt_got_start == MinOf(pltlocations)
        plt_got_end == MaxOf(pltlocations) + offsize
        b1 == IF DynHas(d, DT_PLTGOT)
              THEN BuilderAddSectionEnd(segs, ".got.plt", DynGet(d, DT_PLTGOT),
                                        plt_got_end)
              ELSE Started(segs)
        entries == IF l.armv7 THEN <<>>
                   ELSE ScanStubs(text, 4, plt_got_start, plt_got_end)
        offs == { entries[i][1] : i \in 1..Len(entries) }
        b2 == IF l.armv7 THEN b1
              ELSE ThenAddSectionEnd(b1, ".plt", MinOf(offs), MaxOf(offs) + 16)
        got_end == GotProbe(plt_got_end + offsize, l.locations, d, offsize)
        good == got_end # plt_got_end + offsize
        b3 == IF good THEN ThenAddSectionEnd(b2, ".got", plt_got_end, got_end)
              ELSE b2
        l2 == [l EXCEPT !.plt_entries = entries]
    IN  IF ~b1.ok
        THEN [load |-> Fail(l, "AssertionError", 314), segs |-> b1.segs]
        ELSE IF ~l.armv7 /\ entries = <<>>
        THEN [load |-> Fail(l2, "ValueError", 336), segs |-> b1.segs]
        ELSE IF ~b2.ok
        THEN [load |-> Fail(l2, "AssertionError", 336), segs |-> b2.segs]
        ELSE IF ~b3.ok
        THEN [load |-> Fail(l2, "AssertionError", 346), segs |-> b3.segs]
        ELSE [load |-> [l2 EXCEPT !.pc = "eh"], segs |-> b3.segs]

(* lines 307-346 *)
LoadPltGot ==
    /\ load.pc = "pltgot"
    /\ LET d == load.dynamic IN
       IF ~DynHas(d, DT_JMPREL)
       THEN load' = [load EXCEPT !.pc = "eh"] /\ segments' = segments
       ELSE IF ~DynHas(d, DT_PLTRELSZ)
       THEN load' = Fail(load, "KeyError", 308) /\ segments' = segments
       ELSE \E kinds \in [1..RelocCount(DynGet(d, DT_PLTRELSZ), load.armv7) ->
                            PltRelKinds(load.armv7)] :
            \E n \in 0..MaxStubs : \E stubs \in [1..n -> StubKinds] :
              LET r == process_relocations(load.armv7, load.symbols,
                                           RawTable(load.armv7, kinds, 0),
                                           load.relocations)
                  l == [load EXCEPT !.relocations = r.relocations,
                                    !.locations = @ \cup r.locations]
                  res == PltGot(l, segments, r.locations,
                                TextWords(stubs, load.hdr.tsize))
              IN  IF r.exc # "none"
                  THEN load' = Fail(l, r.exc, 411) /\ segments' = segments
                  ELSE load' = res.load /\ segments' = res.segs
    /\ UNCHANGED <<parts, last, blz, cat, dyn>>

(* the three encoding bytes the code accepts, one holding DW_EH_PE_omit,
   and one it does not know *)
EhEncodings == { <<27, 3, 59>>, <<255, 3, 59>>, <<27, 3, 60>> }

(* sorted(self.eh_table, key=lambda x: x[1])[-2][1]: the entry before the
   last one of the sorted table *)
LastEntry_second(eh_table) ==
    CHOOSE v \in { eh_table[i][2] : i \in 1..Len(eh_table) } :
        /\ Cardinality({ i \in 1..Len(eh_table) : eh_table[i][2] > v }) <= 1
        /\ Cardinality({ i \in 1..Len(eh_table) : eh_table[i][2] >= v }) >= 2

(* sorted(self.eh_table, key=lambda x: x[1])[-1][1] *)
LastEntry(eh_table) == MaxOf({ eh_table[i][2] : i \in 1..Len(eh_table) })

(* lines 348-370 *)
LoadEh ==
    /\ load.pc = "eh"
    /\ IF load.armv7
       THEN load' = [load EXCEPT !.pc = "flatten"] /\ segments' = segments
       ELSE \E enc \in EhEncodings, fde_count \in 1..2 :
            \E rels \in [1..fde_count -> {Image.eh_frame - load.hdr.unwindoff + 16,
                                         Image.eh_frame - load.hdr.unwindoff + 32}] :
              LET h == load.hdr
                  base_offset == h.unwindoff + 4
                  eh_frame == base_offset + (Image.eh_frame - base_offset)
                  tell == h.unwindoff + 12
                  matches == 8 * fde_count = h.unwindend - tell
                  table == IF matches
                           THEN [i \in 1..fde_count |->
                                   <<h.unwindoff + 16 * i, h.unwindoff + rels[i]>>]
                           ELSE <<>>
                  l == [load EXCEPT !.eh_table = table]
                  b == BuilderAddSectionEnd(segments, ".eh_frame", eh_frame,
                                            LastEntry(table))
              IN  IF \E i \in 1..3 : enc[i] = 255
                  THEN load' = [load EXCEPT !.pc = "flatten"] /\ segments' = segments
                  ELSE IF ~(enc[1] = 27 /\ enc[2] = 3 /\ enc[3] = 59)
                  THEN load' = [load EXCEPT !.pc = "flatten"] /\ segments' = segments
                  ELSE IF table = <<>>
                  THEN load' = Fail(l, "IndexError", 369) /\ segments' = segments
                  ELSE IF ~b.ok
                  THEN load' = Fail(l, "AssertionError", 370) /\ segments' = b.segs
                  ELSE load' = [l EXCEPT !.pc = "flatten"] /\ segments' = b.segs
    /\ UNCHANGED <<parts, last, blz, cat, dyn>>

(* lines 372-376 *)
LoadFlatten ==
    /\ load.pc = "flatten"
    /\ segments' = SortedSegments(segments)
    /\ parts' = Flatten(segments)
    /\ load' = [load EXCEPT !.pc = "done", !.plt_lookup = None]
    /\ UNCHANGED <<last, blz, cat, dyn>>

MaxRequests == 2

MapPut(m, k, v) == [x \in DOMAIN m \cup {k} |-> IF x = k THEN v ELSE m[x]]
EmptyMap == [x \in {} |-> 0]

(* lines 382-385 from relocation i on; the condition is evaluated left to
   right, so sym.shndx is read only for a matching type with addend 0 *)
RECURSIVE GotValueLookup(_, _, _)
GotValueLookup(relocations, i, m) ==
    IF i > Len(relocations) THEN [exc |-> "none", map |-> m]
    ELSE LET r == relocations[i]
             typed == r.r_type \in {R_AARCH64_GLOB_DAT, R_AARCH64_JUMP_SLOT,
                                     R_AARCH64_ABS64}
             zero == r.addend = Some(0)
         IN  IF typed /\ zero /\ r.sym = None
             THEN [exc |-> "AttributeError", map |-> m]
             ELSE GotValueLookup(relocations, i + 1,
                     IF typed /\ zero /\ r.sym.shndx # 0
                     THEN MapPut(m, r.offset, r.sym.value) ELSE m)

(* lines 387-390 from PLT entry i on *)
RECURSIVE PltMap(_, _, _, _)
PltMap(plt_entries, got_value_lookup, i, m) ==
    IF i > Len(plt_entries) THEN m
    ELSE PltMap(plt_entries, got_value_lookup, i + 1,
                IF plt_entries[i][2] \in DOMAIN got_value_lookup
                THEN MapPut(m, plt_entries[i][1],
                            got_value_lookup[plt_entries[i][2]])
                ELSE m)

(* plt_lookup requested while self._plt_lookup is None *)
PltLookupBuild ==
    /\ load.pc = "done"
    /\ load.requests < MaxRequests
    /\ load.plt_lookup = None
    /\ LET g == GotValueLookup(load.relocations, 1, EmptyMap) IN
       IF g.exc # "none"
       THEN load' = [load EXCEPT !.requests = @ + 1, !.exc = g.exc, !.line = 384]
       ELSE LET m == PltMap(load.plt_entries, g.map, 1, EmptyMap) IN
            load' = [load EXCEPT !.requests = @ + 1,
                                 !.plt_lookup = Some(m), !.returned = Some(m)]
    /\ UNCHANGED <<bvars, blz, cat, dyn>>

(* plt_lookup requested again *)
PltLookupCached ==
    /\ load.pc = "done"
    /\ load.requests < MaxRequests
    /\ load.plt_lookup # None
    /\ load' = [load EXCEPT !.requests = @ + 1, !.returned = load.plt_lookup]
    /\ UNCHANGED <<bvars, blz, cat, dyn>>

LoadInit ==
    /\ load \in { LoadStart(h) : h \in Headers }
    /\ segments = <<>>
    /\ parts = <<>>
    /\ last = NoCall
    /\ blz = BlzIdle
    /\ cat = CatIdle
    /\ dyn = DynIdle

LoadNext ==
    \/ LoadMod0 \/ LoadDynamic \/ LoadDynstr \/ LoadDynsym \/ LoadRelocs
    \/ LoadPltGot \/ LoadEh \/ LoadFlatten \/ PltLookupBuild \/ PltLookupCached

SpecLoad == LoadInit /\ [][LoadNext]_vars

-----------------------------------------------------------------------------
(* The layout builder driven by arbitrary calls; parts is what the last  *)
(* call returned (a list for flatten, nothing for the others)            *)
BuilderInit ==
    /\ segments = <<>>
    /\ parts = <<>>
    /\ last = NoCall
    /\ blz = BlzIdle
    /\ cat = CatIdle
    /\ dyn = DynIdle
    /\ load = LoadIdle

NumSections(segs) ==
    LET RECURSIVE Sum(_)
        Sum(i) == IF i = 0 THEN 0 ELSE Len(segs[i].sections) + Sum(i - 1)
    IN Sum(Len(segs))

add_segment ==
    /\ Len(segments) < MaxSegs
    /\ \E start \in 0..MaxAddr, size \in 0..MaxSize :
         LET nk == SegNames[Len(segments) + 1]
             res == BuilderAddSegment(segments, start, size, nk[1], nk[2]) IN
         /\ segments' = res.segs
         /\ last' = [op |-> "add_segment", ok |-> res.ok, err |-> res.err]
    /\ parts' = <<>>
    /\ UNCHANGED <<blz, cat, dyn, load>>

add_section ==
    /\ NumSections(segments) < MaxSecs
    /\ \E start \in 0..MaxAddr, size \in 0..MaxSecSize :
         LET name == SecNames[NumSections(segments) + 1]
             res == BuilderAddSection(segments, name, start, size) IN
         /\ segments' = res.segs
         /\ last' = [op |-> "add_section", ok |-> res.ok, err |-> res.err]
    /\ parts' = <<>>
    /\ UNCHANGED <<blz, cat, dyn, load>>

flatten ==
    /\ segments' = SortedSegments(segments)
    /\ parts' = Flatten(segments)
    /\ last' = [op |-> "flatten", ok |-> TRUE, err |-> "none"]
    /\ UNCHANGED <<blz, cat, dyn, load>>

BuilderNext == add_segment \/ add_section \/ flatten

SpecBuilder == BuilderInit /\ [][BuilderNext]_vars

-----------------------------------------------------------------------------
(* Half-open intervals [start, end), independent of Range's inclusive end *)
Shares(s1, e1, s2, e2) == \E a \in s1..(e1 - 1) : s2 <= a /\ a < e2
Inside(s1, e1, s2, e2) == \A a \in s1..(e1 - 1) : s2 <= a /\ a < e2
InSegment(segs, a) ==
    \E i \in 1..Len(segs) : segs[i].range.start <= a /\ a < segs[i].range.end
InPart(ps, a) == \E i \in 1..Len(ps) : ps[i].start <= a /\ a < ps[i].end
Addrs == -1..(MaxAddr + MaxSize + 1)

Tiles(ps, segs) ==
    \* sorted by start, every part non-empty
    /\ \A i \in 1..Len(ps) : ps[i].start < ps[i].end
    /\ \A i, j \in 1..Len(ps) : i < j => ps[i].start < ps[j].start
    \* pairwise non-overlapping
    /\ \A i, j \in 1..Len(ps) :
         i # j => ~Shares(ps[i].start, ps[i].end, ps[j].start, ps[j].end)
    \* contiguous: two consecutive parts leave no segment address between them
    /\ \A i \in 1..(Len(ps) - 1) :
         \A a \in ps[i].end..(ps[i+1].start - 1) : ~InSegment(segs, a)
    \* exact cover of the union of the segments
    /\ \A a \in Addrs : InPart(ps, a) <=> InSegment(segs, a)

\* C1: whenever flatten() has returned (it can be called in every builder
\* state reached by add_segment / add_section calls), the returned parts are
\* sorted by start, pairwise disjoint, leave no segment address uncovered
\* between consecutive parts, and cover exactly the union of the registered
\* segment intervals.
C1_FlattenTiles ==
    last.op = "flatten" => Tiles(parts, segments)

\* C1 witness: flatten has returned for two segments registered out of
\* address order, with two sections and a filler.
C1_Witness ==
    /\ last.op = "flatten"
    /\ Len(segments) = 2
    /\ segments[1].name = ".rodata"
    /\ segments[1].range.end <= segments[2].range.start
    /\ NumSections(segments) = 2
    /\ Len(parts) >= 3

\* C2: add_segment fails, leaving the segments unchanged, for every interval
\* that shares an address with a registered segment; add_section fails,
\* leaving the segments unchanged, for every interval no registered segment
\* contains.
C2_RejectsConflicts ==
    /\ \A start \in 0..MaxAddr, size \in 0..MaxSize :
         (\E i \in 1..Len(segments) :
              Shares(start, start + size,
                     segments[i].range.start, segments[i].range.end))
           => LET res == BuilderAddSegment(segments, start, size, ".x", "CODE")
              IN ~res.ok /\ res.segs = segments
    /\ \A start \in 0..MaxAddr, size \in 0..MaxSecSize :
         (~\E i \in 1..Len(segments) :
              Inside(start, start + size,
                     segments[i].range.start, segments[i].range.end))
           => LET res == BuilderAddSection(segments, ".x", start, size)
              IN ~res.ok /\ res.segs = segments
    /\ (last.op \in {"add_segment", "add_section"} /\ ~last.ok)
           => last.err # "none"

\* C2 witness: an add_segment call has failed on an overlap while a segment
\* was registered.
C2_Witness ==
    /\ last.op = "add_segment" /\ ~last.ok
    /\ last.err = "assert not r.overlaps"
    /\ Len(segments) = 1

\* C3: every section a segment holds lies inside the segment's interval, the
\* sections of one segment are pairwise disjoint, and an add_section whose
\* interval shares an address with a section of the segment containing it
\* fails without appending.
C3_SectionsDisjoint ==
    /\ \A i \in 1..Len(segments) :
         LET secs == segments[i].sections
             seg == segments[i].range IN
         /\ \A k \in 1..Len(secs) :
              /\ secs[k].range.start < secs[k].range.end
              /\ Inside(secs[k].range.start, secs[k].range.end, seg.start, seg.end)
         /\ \A k, l \in 1..Len(secs) :
              k # l => ~Shares(secs[k].range.start, secs[k].range.end,
                               secs[l].range.start, secs[l].range.end)
    /\ \A start \in 0..MaxAddr, size \in 1..MaxSecSize :
         (\E i \in 1..Len(segments) :
             /\ Inside(start, start + size,
                       segments[i].range.start, segments[i].range.end)
             /\ \E k \in 1..Len(segments[i].sections) :
                  Shares(start, start + size,
                         segments[i].sections[k].range.start,
                         segments[i].sections[k].range.end))
           => LET res == BuilderAddSection(segments, ".x", start, size)
              IN ~res.ok /\ res.segs = segments

\* C3 witness: an add_section call has failed on a sibling overlap in a
\* segment that already holds a section.
C3_Witness ==
    /\ last.op = "add_section" /\ ~last.ok
    /\ last.err = "section overlaps"
    /\ NumSections(segments) >= 1

-----------------------------------------------------------------------------
\* C4 (the claim as stated): once kip1_blz_decompress has started its walk,
\* no byte of the compressed or the output buffer has been read or written
\* through a negative index that wrapped around to the end of the buffer.
C4_NoWrappedAccess ==
    blz.pc \in {"while", "for", "returned", "raised"} => ~blz.wrapped

-----------------------------------------------------------------------------
(* byte k (0-based) of the buffer, "none" past its end *)
FullAt(k) == IF k < Len(cat.full) THEN cat.full[k + 1] ELSE <<"none", 0>>

\* C10 (the claim as stated): when the buffer is handed on, the read-only
\* data bytes start exactly at offset rloc and the data bytes exactly at
\* offset dloc, for every combination of region lengths and load offsets.
C10_RegionsAtOffsets ==
    cat.pc = "super" =>
        /\ cat.ro # <<>> => FullAt(cat.rloc) = cat.ro[1]
        /\ cat.data # <<>> => FullAt(cat.dloc) = cat.data[1]

\* C10 (amended): when the buffer is handed on, its length is dloc plus the
\* data length, every data byte k lies at offset dloc + k, and the read-only
\* data byte k lies at offset rloc + k whenever rloc + k < dloc; a byte of
\* the buffer below dloc that is no such byte is a text byte at its own
\* offset (below rloc) or padding.
C10_Amended ==
    cat.pc = "super" =>
        /\ Len(cat.full) = cat.dloc + Len(cat.data)
        /\ \A k \in 0..(Len(cat.data) - 1) : FullAt(cat.dloc + k) = cat.data[k + 1]
        /\ \A k \in 0..(Len(cat.ro) - 1) :
             cat.rloc + k < cat.dloc => FullAt(cat.rloc + k) = cat.ro[k + 1]
        /\ \A o \in 0..(cat.dloc - 1) :
             ~(cat.rloc <= o /\ o < cat.rloc + Len(cat.ro)) =>
                 \/ FullAt(o) = NulByte
                 \/ o < cat.rloc /\ o < Len(cat.text) /\ FullAt(o) = cat.text[o + 1]

\* C10 witness: a buffer was handed on in which the text had to be cut at
\* rloc, and the read-only data had to be cut at dloc.
C10_Witness ==
    /\ cat.pc = "super"
    /\ Len(cat.text) > cat.rloc
    /\ cat.rloc < cat.dloc
    /\ cat.rloc + Len(cat.ro) > cat.dloc
    /\ cat.data # <<>>

-----------------------------------------------------------------------------
(* The table the buffer holds, read at the detected width *)
DynReadable == { i \in 0..(Len(dyn.words)) : CanReadEntry(dyn.words, dyn.armv7, i) }
DynEntryAt(i) == ReadEntry(dyn.words, dyn.armv7, i)
DynNulls == { i \in DynReadable : DynEntryAt(i).tag = Small(DT_NULL) }
DynHasNull == DynNulls # {}
DynFirstNull == CHOOSE i \in DynNulls : \A j \in DynNulls : i <= j

(* what a table built from entries 0..k-1 must be *)
DynTableIs(t, k) ==
    LET nd == { i \in 0..(k - 1) : DynEntryAt(i).tag = Small(DT_NEEDED) }
        others == { DynEntryAt(i).tag : i \in (0..(k - 1)) \ nd }
    IN  /\ Len(t.needed) = Cardinality(nd)
        /\ \A i \in nd :
             t.needed[Cardinality({ x \in nd : x < i }) + 1] = DynEntryAt(i).val
        /\ DOMAIN t.slots = others
        /\ \A tag \in others :
             \E i \in 0..(k - 1) :
                /\ DynEntryAt(i).tag = tag
                /\ \A j \in (i + 1)..(k - 1) : DynEntryAt(j).tag # tag
                /\ t.slots[tag] = DynEntryAt(i).val

\* C8: when the parse of a table has ended and the table up to its null
\* tag lies within the flatsize - dynamicoff bytes that follow dynamicoff,
\* no entry after the null tag was read, the dependency sequence holds the
\* values of every DT_NEEDED entry before the null tag in order, and every
\* other tag before the null tag holds its last value.
C8_UpToNull ==
    (/\ dyn.pc = "parsed"
     /\ DynHasNull
     /\ (DynFirstNull + 1) * DynEntSize(dyn.armv7) <= dyn.avail) =>
        /\ dyn.nread <= DynFirstNull + 1
        /\ DynTableIs(dyn.table, DynFirstNull)

(* what lines 251-258 do compute: the entries before the first null tag or
   before the iteration limit, whichever comes first, make the table *)
DynTableUpToLimit ==
    dyn.pc = "parsed" =>
        LET k == IF DynHasNull /\ DynFirstNull < dyn.niter
                 THEN DynFirstNull ELSE dyn.niter
        IN  /\ dyn.nread = (IF DynHasNull /\ DynFirstNull < dyn.niter
                            THEN k + 1 ELSE k)
            /\ DynTableIs(dyn.table, k)

-----------------------------------------------------------------------------
(* the source lines of the PLT/GOT recovery and of the exception-table
   recovery at which an exception can leave the constructor *)
RecoveryLines == {311, 314, 336, 346, 369, 370}

(* the four regions of the image are non-empty *)
RegionsPositive ==
    /\ load.hdr.tsize > 0
    /\ load.hdr.rsize > 0
    /\ load.hdr.bssoff - load.hdr.dloc > 0
    /\ load.hdr.bssend - load.hdr.bssoff > 0

\* C5: the PLT/GOT recovery phase and the exception-table recovery phase
\* never abort the load: no load of an image with four non-empty regions
\* ends with an exception raised by one of their lines.
C5_RecoveryNeverAborts ==
    RegionsPositive => ~(load.pc = "failed" /\ load.line \in RecoveryLines)

\* C6: once the one-byte placeholder string table has been substituted (a
\* warning only) in the load of an image with four non-empty regions, the
\* load is not ended by a string-table lookup (get_dynstr, line 419) nor by
\* the symbol-table parsing's use of the string-table offset (line 287).
C6_PlaceholderContinues ==
    (RegionsPositive /\ load.warned) =>
        ~(load.pc = "failed" /\ load.line \in {287, 419})

\* C7: every segment the constructor has registered has a positive size (a
\* zero-size text, rodata, data or bss region is rejected by add_segment).
C7_SegmentsPositive ==
    load.pc # "mod0" => \A i \in 1..Len(segments) : segments[i].range.size > 0

(* the relocations plt_lookup is to use, and the map it is to return *)
Eligible(r) ==
    /\ r.r_type \in {R_AARCH64_GLOB_DAT, R_AARCH64_JUMP_SLOT, R_AARCH64_ABS64}
    /\ r.addend = Some(0)
    /\ r.sym # None
    /\ r.sym.shndx # 0
EligibleAt(t) ==
    { i \in 1..Len(load.relocations) :
        Eligible(load.relocations[i]) /\ load.relocations[i].offset = t }
StubsOf(f) ==
    { i \in 1..Len(load.plt_entries) :
        load.plt_entries[i][1] = f /\ EligibleAt(load.plt_entries[i][2]) # {} }
ExpectedLookup ==
    [f \in { load.plt_entries[i][1] : i \in { j \in 1..Len(load.plt_entries) :
                                    EligibleAt(load.plt_entries[j][2]) # {} } } |->
        load.relocations[MaxOf(EligibleAt(
            load.plt_entries[MaxOf(StubsOf(f))][2]))].sym.value]

\* C9: every request of plt_lookup on a loaded object (an image with four
\* non-empty regions) returns the map that sends each PLT stub address to
\* sym.value of the GLOB_DAT / JUMP_SLOT / ABS64 relocation with addend 0 and
\* a symbol of non-zero section index that patches the stub's target slot,
\* and the map is the cached one.
C9_LookupIsTheMap ==
    (RegionsPositive /\ load.pc = "done" /\ load.requests > 0) =>
        /\ load.returned = Some(ExpectedLookup)
        /\ load.plt_lookup = load.returned



-----------------------------------------------------------------------------
(* the trailer fields of the buffer handed to kip1_blz_decompress *)
BlzTrailer ==
    LET c == blz.compressed
        n == Len(c)
    IN  [compressed_size |-> UnLE32(SubSeq(c, n - 11, n - 8)),
         init_index |-> UnLE32(SubSeq(c, n - 7, n - 4)),
         uncompressed_addl_size |-> UnLE32(SubSeq(c, n - 3, n))]

\* C11: whenever the trailer's compressed size and additional tail size are
\* both zero, kip1_blz_decompress returns the empty sequence and has read no
\* control byte (nor any other byte of the stream).
C11_ZeroIsEmpty ==
    (/\ blz.pc # "call"
     /\ BlzTrailer.compressed_size = 0
     /\ BlzTrailer.uncompressed_addl_size = 0)
        => /\ blz.pc = "returned"
           /\ blz.result = <<>>
           /\ blz.nread = 0

(* the all-zero 12-byte trailer fixture has been decompressed *)
C11_Witness ==
    /\ blz.pc = "returned"
    /\ blz.compressed = Repeat(0, TrailerLen)
    /\ blz.result = <<>>

BlzRunning == blz.pc \in {"while", "for"}
BlzStopped == blz.pc \in {"returned", "raised"}

(* one control bit: it raises, or moves the output cursor down by 1
   (literal) or by the run length 3..18 (back-reference) *)
BlzBitStep ==
    blz.pc = "for" =>
        \/ blz'.pc = "raised"
        \/ IF blz.control >= 128
           THEN blz.outindex - blz'.outindex \in 3..18
           ELSE blz.outindex - blz'.outindex = 1

\* C15: kip1_blz_decompress terminates on every input, by return or by
\* exception; every control bit raises or strictly decreases the output
\* cursor (1 for a literal, 3..18 for a back-reference); the output cursor
\* is never negative; and no further bit or control byte is processed once
\* the output cursor is zero.
C15_Terminates ==
    /\ [](blz.pc \in {"while", "for", "returned", "raised"} => blz.outindex >= 0)
    /\ [](BlzRunning => blz.outindex > 0)
    /\ [][BlzBitStep]_vars
    /\ <>BlzStopped

(* decoding has returned in the middle of a control byte, with bits of that
   byte left unprocessed *)
C15_Witness ==
    /\ blz.pc = "returned"
    /\ blz.outindex = 0
    /\ blz.nread > 0
    /\ blz.i \in 1..7


-----------------------------------------------------------------------------
(* the parts flatten returned for one segment, in the order returned *)
SegParts(seg) ==
    SelectSeq(parts, LAMBDA p : seg.range.start <= p.start
                                /\ p.start < seg.range.end)

(* a part that is one of the segment's explicit sections *)
IsSectionPart(seg, p) ==
    \E k \in 1..Len(seg.sections) :
        /\ seg.sections[k].range.start = p.start
        /\ seg.sections[k].range.end = p.end

(* the filler parts of one segment, in ascending start order *)
Fillers(seg) == SelectSeq(SegParts(seg), LAMBDA p : ~IsSectionPart(seg, p))

(* every explicit section appears as a part under its own name *)
SectionsKeepNames(seg) ==
    \A k \in 1..Len(seg.sections) :
        \E n \in 1..Len(parts) :
            /\ parts[n].start = seg.sections[k].range.start
            /\ parts[n].end = seg.sections[k].range.end
            /\ parts[n].name = seg.sections[k].name

\* C12 (the claim as stated): after flatten(), in a segment that needs more
\* than one filler the k-th filler (k from 0, ascending start) is named
\* <segment name>.<k>, a segment that needs exactly one filler names it with
\* the bare segment name, and explicit sections keep their own names.
C12_FillerNames ==
    last.op = "flatten" =>
        \A i \in 1..Len(segments) :
            LET seg == segments[i]
                f == Fillers(seg)
            IN  /\ \A j \in 1..Len(f) :
                     f[j].name = IF Len(f) = 1 THEN seg.name
                                 ELSE seg.name \o "." \o ToString(j - 1)
                /\ SectionsKeepNames(seg)

\* C12 (amended): after flatten(), the first filler of a segment (k = 0)
\* carries the bare segment name however many fillers the segment needs, the
\* k-th filler for k >= 1 is named <segment name>.<k>, and explicit sections
\* keep their own names and do not advance the counter.
C12_Amended ==
    last.op = "flatten" =>
        \A i \in 1..Len(segments) :
            LET seg == segments[i]
                f == Fillers(seg)
            IN  /\ \A j \in 1..Len(f) :
                     f[j].name = IF j = 1 THEN seg.name
                                 ELSE seg.name \o "." \o ToString(j - 1)
                /\ SectionsKeepNames(seg)

(* flatten has returned for a segment with a section between two fillers *)
C12_Witness ==
    /\ last.op = "flatten"
    /\ \E i \in 1..Len(segments) :
         /\ Len(Fillers(segments[i])) >= 2
         /\ Len(segments[i].sections) >= 1


-----------------------------------------------------------------------------
(* the sections named .eh_frame the builder holds *)
EhFrameSections ==
    { sec \in UNION { { segments[i].sections[k] :
                          k \in 1..Len(segments[i].sections) } :
                      i \in 1..Len(segments) } : sec.name = ".eh_frame" }

(* the unwind-info offsets of the exception table *)
InfoOffsets == { load.eh_table[i][2] : i \in 1..Len(load.eh_table) }

(* the largest unwind-info offset, and the one before it in sorted order *)
LargestInfo == CHOOSE v \in InfoOffsets : \A w \in InfoOffsets : w <= v
SecondLargestInfo ==
    CHOOSE v \in InfoOffsets :
        /\ Cardinality({ i \in 1..Len(load.eh_table) : load.eh_table[i][2] > v }) <= 1
        /\ Cardinality({ i \in 1..Len(load.eh_table) : load.eh_table[i][2] >= v }) >= 2

(* the exception table was read on the wide-pointer architecture and the
   constructor went on past the recovery *)
EhRecovered ==
    /\ load.pc \in {"flatten", "done"}
    /\ ~load.armv7
    /\ load.eh_table # <<>>

\* C13 (the claim as stated): when the unwind header is accepted on the
\* wide-pointer architecture, the synthesized .eh_frame section spans from
\* the eh_frame pointer to the unwind-info offset of the second-largest
\* entry of the exception table.
C13_EndsAtSecondLargest ==
    /\ EhRecovered => EhFrameSections # {}
    /\ \A sec \in EhFrameSections :
         /\ sec.range.start = Image.eh_frame
         /\ sec.range.end = SecondLargestInfo

\* C13 (amended): when the unwind header is accepted on the wide-pointer
\* architecture, the synthesized .eh_frame section spans from the eh_frame
\* pointer to the unwind-info offset of the largest entry of the exception
\* table ordered by unwind-info offset.
C13_Amended ==
    /\ EhRecovered => EhFrameSections # {}
    /\ \A sec \in EhFrameSections :
         /\ sec.range.start = Image.eh_frame
         /\ sec.range.end = LargestInfo

(* an .eh_frame section was synthesized from a table whose two entries have
   different unwind-info offsets *)
C13_Witness ==
    /\ EhRecovered
    /\ EhFrameSections # {}
    /\ Cardinality(InfoOffsets) = 2


-----------------------------------------------------------------------------
(* the 8-byte word at byte offset off from dynamicoff exists and exceeds
   0xFFFFFFFF, read off the buffer itself *)
WordExceeds32(off) ==
    /\ (off \div 4) + 2 <= Len(dyn.words)
    /\ dyn.words[(off \div 4) + 2] # 0

(* line 244 has been evaluated without running off the buffer *)
DynDetected == dyn.pc \in {"loop", "done", "raised"} /\ CanDetect(dyn.words)

\* C14 (the claim as stated): width detection selects the narrow variant
\* exactly when the 8-byte word at dynamicoff or the 8-byte word at
\* dynamicoff+8 exceeds 0xFFFFFFFF, and the wide variant otherwise.
C14_FirstTwoWords ==
    DynDetected => (dyn.armv7 <=> (WordExceeds32(0) \/ WordExceeds32(8)))

\* C14 (amended): width detection selects the narrow variant exactly when
\* the 8-byte word at dynamicoff or the 8-byte word at dynamicoff+0x10
\* exceeds 0xFFFFFFFF, and the wide variant otherwise; no other bytes of the
\* buffer influence the decision.
C14_Amended ==
    DynDetected => (dyn.armv7 <=> (WordExceeds32(0) \/ WordExceeds32(16)))

(* the width was detected on a buffer whose words at +8 and +0x10 disagree:
   only the one at +8 exceeds 32 bits, and the wide variant was selected *)
C14_Witness ==
    /\ DynDetected
    /\ ~WordExceeds32(0) /\ WordExceeds32(8) /\ ~WordExceeds32(16)
    /\ ~dyn.armv7


-----------------------------------------------------------------------------
(* the sections of a given name the builder holds *)
SectionsNamed(name) ==
    { sec \in UNION { { segments[i].sections[k] :
                          k \in 1..Len(segments[i].sections) } :
                      i \in 1..Len(segments) } : sec.name = name }

(* the pointer-width slot addresses inside a section *)
SlotsOf(sec) ==
    { a \in sec.range.start..(sec.range.end - 1) :
        (a - sec.range.start) % OffSize(load.armv7) = 0 }

(* the test of line 341 on one slot address *)
SlotPatched(a) ==
    /\ a \in load.locations
    /\ (~DynHas(load.dynamic, DT_INIT_ARRAY)
          \/ a < DynGet(load.dynamic, DT_INIT_ARRAY))

-----------------------------------------------------------------------------
(* the symbol table is about to be parsed against a string table that was
   read from the file and ends with a NUL *)
DynsymStarts ==
    /\ load.pc = "dynsym"
    /\ RegionsPositive
    /\ ~load.warned
    /\ load.dynstr[Len(load.dynstr)] = "nul"
    /\ DynHas(load.dynamic, DT_SYMTAB)
    /\ DynHas(load.dynamic, DT_STRTAB)

(* .dynsym runs from the declared offset to the cursor where the loop
   stopped: right after the accepted records when the cursor reached the
   string table, one record further when a record's name offset ended it *)
DynsymAtCursor(sec) ==
    /\ sec.range.start = DynGet(load.dynamic, DT_SYMTAB)
    /\ (sec.range.end - sec.range.start)
          \in { Len(load.symbols) * SymSize(load.armv7),
                (Len(load.symbols) + 1) * SymSize(load.armv7) }

\* C17 (the claim as stated): symbol-table parsing never ends in the
\* ValueError of a name lookup, because every record whose name offset does
\* not exceed the string table's length (one equal to it included) is
\* accepted; and when it ends cleanly, the .dynsym section runs from the
\* declared offset to the cursor position where parsing stopped.
C17_DynsymEndsCleanly ==
    [][DynsymStarts =>
          /\ ~(load'.pc = "failed" /\ load'.exc = "ValueError")
          /\ load'.pc = "relocs" =>
                /\ SectionsNamed(".dynsym")' # {}
                /\ \A sec \in SectionsNamed(".dynsym")' : DynsymAtCursor(sec)']_vars

=============================================================================
